---- MODULE Spec2Model ----
(***************************************************************************)
(* Model of the versioned field-mapping engine (FieldsMappingService) of   *)
(* the products-listing sample: dot-path accessors, transform registry,    *)
(* rule cache with version resolution, and the rule application loop.      *)
(*                                                                         *)
(* JavaScript values are records [k, s, n]: k is the kind, s the string    *)
(* payload, n the number payload or, for a reference, the heap address.    *)
(* Objects live in a heap (address -> object); an object is a function     *)
(* from its own keys to values, so aliasing is visible.                    *)
(***************************************************************************)
EXTENDS Integers, Sequences, FiniteSets, TLC

(***************************************************************************)
(* Values                                                                  *)
(***************************************************************************)
Undef == [k |-> "undefined", s |-> "", n |-> 0]
Null == [k |-> "null", s |-> "", n |-> 0]
Str(str) == [k |-> "string", s |-> str, n |-> 0]
Num(num) == [k |-> "number", s |-> "", n |-> num]
Ref(addr) == [k |-> "object", s |-> "", n |-> addr]

EmptyObject == [key \in {} |-> Undef]

\* typeof value === 'object' && value !== null
isRecord(value) == value.k = "object"

\* sourceObject == null (loose equality: null or undefined)
IsNullish(value) == value.k \in {"null", "undefined"}

\* JavaScript property read: an absent key reads as undefined
Prop(h, value, key) ==
    IF key \in DOMAIN h[value.n] THEN h[value.n][key] ELSE Undef

(***************************************************************************)
(* Paths are strings, modelled as sequences of one-character strings.      *)
(***************************************************************************)
Whitespace == {" "}

RECURSIVE trim(_)
trim(chars) ==
    IF chars = <<>> THEN <<>>
    ELSE IF Head(chars) \in Whitespace THEN trim(Tail(chars))
    ELSE IF chars[Len(chars)] \in Whitespace
         THEN trim(SubSeq(chars, 1, Len(chars) - 1))
    ELSE chars

\* path.split('.'): the segments between dots, empty ones included
RECURSIVE split(_, _)
split(chars, current) ==
    IF chars = <<>> THEN <<current>>
    ELSE IF Head(chars) = "." THEN <<current>> \o split(Tail(chars), <<>>)
    ELSE split(Tail(chars), Append(current, Head(chars)))

RECURSIVE join(_)
join(chars) == IF chars = <<>> THEN "" ELSE Head(chars) \o join(Tail(chars))

RECURSIVE dropEmpty(_)
dropEmpty(segments) ==
    IF segments = <<>> THEN <<>>
    ELSE IF Head(segments) = "" THEN dropEmpty(Tail(segments))
    ELSE <<Head(segments)>> \o dropEmpty(Tail(segments))

\* path.split('.').map(trim).filter(Boolean)
splitPath(path) ==
    LET raw == split(path, <<>>)
    IN dropEmpty([i \in 1..Len(raw) |-> join(trim(raw[i]))])

\* parts.at(-1)! used as a property key: undefined becomes the key "undefined"
LastKey(parts) == IF parts = <<>> THEN "undefined" ELSE parts[Len(parts)]

RECURSIVE getWalk(_, _, _)
getWalk(h, currentValue, parts) ==
    IF parts = <<>> THEN currentValue
    ELSE IF ~isRecord(currentValue) THEN Undef
    ELSE LET next == Prop(h, currentValue, Head(parts))
         IN IF next = Undef THEN Undef ELSE getWalk(h, next, Tail(parts))

getByPath(h, sourceObject, path) ==
    IF IsNullish(sourceObject) \/ path = <<>> THEN Undef
    ELSE getWalk(h, sourceObject, splitPath(path))

\* the loop over parts[0 .. length-2]; FALSE when a parent is not a record
RECURSIVE hasOwnWalk(_, _, _)
hasOwnWalk(h, parentValue, parts) ==
    IF Len(parts) <= 1
    THEN isRecord(parentValue) /\ LastKey(parts) \in DOMAIN h[parentValue.n]
    ELSE IF ~isRecord(parentValue) THEN FALSE
    ELSE hasOwnWalk(h, Prop(h, parentValue, Head(parts)), Tail(parts))

\* hasOwnByPath through the value read: null counts as absent
hasValueByPath(h, sourceObject, path) ==
    ~IsNullish(getByPath(h, sourceObject, path))

hasOwnByPath(h, sourceObject, path) ==
    IF IsNullish(sourceObject) \/ path = <<>> THEN FALSE
    ELSE hasOwnWalk(h, sourceObject, splitPath(path))

FreshAddr(h) ==
    IF DOMAIN h = {} THEN 1
    ELSE (CHOOSE a \in DOMAIN h : \A b \in DOMAIN h : b <= a) + 1

\* h with object addr's key set to value (the key is created when absent)
Store(h, addr, key, value) ==
    [h EXCEPT ![addr] =
        [kk \in DOMAIN h[addr] \cup {key} |->
            IF kk = key THEN value ELSE h[addr][kk]]]

RECURSIVE setWalk(_, _, _, _)
setWalk(h, currentContainer, parts, value) ==
    IF Len(parts) <= 1 THEN Store(h, currentContainer, LastKey(parts), value)
    ELSE LET key == Head(parts)
             nextContainer == Prop(h, Ref(currentContainer), key)
         IN IF ~isRecord(nextContainer)
            THEN LET newContainer == FreshAddr(h)
                     h1 == [a \in DOMAIN h \cup {newContainer} |->
                              IF a = newContainer THEN EmptyObject ELSE h[a]]
                 IN setWalk(Store(h1, currentContainer, key, Ref(newContainer)),
                            newContainer, Tail(parts), value)
            ELSE setWalk(h, nextContainer.n, Tail(parts), value)

\* returns the heap after the assignment (targetObject is an address)
setByPath(h, targetObject, path, value) ==
    IF path = <<>> THEN h
    ELSE setWalk(h, targetObject, splitPath(path), value)

(***************************************************************************)
(* Conversions between numbers and strings                                 *)
(***************************************************************************)
Digits == <<"0", "1", "2", "3", "4", "5", "6", "7", "8", "9">>

\* String(n) for a natural number: its decimal digits
RECURSIVE NatToString(_)
NatToString(num) ==
    IF num < 10 THEN Digits[num + 1]
    ELSE NatToString(num \div 10) \o Digits[(num % 10) + 1]

\* String(value) for the values of the model
ToStringValue(value) ==
    CASE value.k = "string" -> value.s
      [] value.k = "number" -> NatToString(value.n)
      [] value.k = "object" -> "[object Object]"
      [] OTHER -> value.k

\* the strings of the model that Number() parses to a number, with their value;
\* Number of any other non-empty string is NaN
NumericStrings == [str \in {"0", "5", "7", "12"} |->
    CASE str = "0" -> 0 [] str = "5" -> 5 [] str = "7" -> 7 [] str = "12" -> 12]

NaN == [k |-> "NaN", s |-> "", n |-> 0]

\* Number(value): numbers unchanged, strings parsed, plain objects NaN
ToNumberValue(value) ==
    CASE value.k = "number" -> value
      [] value.k = "string" ->
            IF value.s = "" THEN Num(0)
            ELSE IF value.s \in DOMAIN NumericStrings
                 THEN Num(NumericStrings[value.s]) ELSE NaN
      [] value.k = "null" -> Num(0)
      [] OTHER -> NaN

(***************************************************************************)
(* Transform registry                                                      *)
(***************************************************************************)
NoTransform == "null"
TransformMethod == {"toNumber", "toString", "nullIfEmpty", "defaultIfNull"}

TransformToNumber(inputValue) ==
    IF inputValue = Str("") \/ inputValue = Null \/ inputValue = Undef THEN Null
    ELSE LET numericValue == ToNumberValue(inputValue)
         IN IF numericValue = NaN THEN Null ELSE numericValue

TransformToString(inputValue) ==
    IF inputValue = Null \/ inputValue = Undef THEN Null
    ELSE Str(ToStringValue(inputValue))

TransformNullIfEmpty(inputValue) == IF inputValue = Str("") THEN Null ELSE inputValue

\* defaultValue ?? null
TransformDefaultIfNull(inputValue, defaultValue) ==
    IF inputValue = Null \/ inputValue = Undef
    THEN (IF IsNullish(defaultValue) THEN Null ELSE defaultValue)
    ELSE inputValue

\* TRANSFORM_REGISTRY is an object literal, so a lookup also finds what it
\* inherits from Object.prototype. Of the inherited keys the rules of the model
\* use these two; both are functions that throw a TypeError when called
\* without a receiver, as the loop calls a transform.
InheritedKeys == {"valueOf", "hasOwnProperty"}

\* TRANSFORM_REGISTRY[method] is truthy
RegistryHas(method) == method \in TransformMethod \cup InheritedKeys

\* TRANSFORM_REGISTRY[method](inputValue, defaultValue), method in the registry
TRANSFORM_REGISTRY(method, inputValue, defaultValue) ==
    CASE method = "toNumber" -> TransformToNumber(inputValue)
      [] method = "toString" -> TransformToString(inputValue)
      [] method = "nullIfEmpty" -> TransformNullIfEmpty(inputValue)
      [] method = "defaultIfNull" -> TransformDefaultIfNull(inputValue, defaultValue)

(***************************************************************************)
(* Rule application                                                        *)
(*                                                                         *)
(* A loaded rule (a FieldMapping instance) is a record [entity, version,   *)
(* isRequired, source, target, transformMethod, defaultValue, direction];  *)
(* defaultValue is a value, a reference into the heap when it is an object.*)
(***************************************************************************)
MaxDepth == 4

\* JSON image of a value: the set of its leaves, each with its key path
RECURSIVE Snap(_, _, _, _)
Snap(h, value, prefix, fuel) ==
    IF ~isRecord(value) \/ fuel = 0 THEN {[p |-> prefix, v |-> value]}
    ELSE IF DOMAIN h[value.n] = {}
         THEN {[p |-> prefix, v |-> [k |-> "{}", s |-> "", n |-> 0]]}
    ELSE UNION {Snap(h, h[value.n][key], Append(prefix, key), fuel - 1) :
                   key \in DOMAIN h[value.n]}

Json(h, value) == Snap(h, value, <<>>, MaxDepth)

\* IsEmptyValue without the empty string
IsNullishValue(value) == value = Undef \/ value = Null

\* transformedValue === undefined || === null || === ''
IsEmptyValue(value) == value = Undef \/ value = Null \/ value = Str("")

\* SkipsRow that keeps required rows in sparse mode
SkipsOptionalRow(h, input, mappingRow, sparse) ==
    sparse /\ ~hasOwnByPath(h, input, mappingRow.source) /\ ~mappingRow.isRequired

\* the sparse test that opens the loop body
SkipsRow(h, input, mappingRow, sparse) ==
    sparse /\ ~hasOwnByPath(h, input, mappingRow.source)

\* RowValue with the default fallback only for rows without a transform
RowValueOrTransformed(h, input, mappingRow) ==
    LET read == getByPath(h, input, mappingRow.source)
    IN IF mappingRow.transformMethod # NoTransform
       THEN TRANSFORM_REGISTRY(mappingRow.transformMethod, read,
                               mappingRow.defaultValue)
       ELSE IF IsNullish(read) /\ ~IsNullish(mappingRow.defaultValue)
       THEN mappingRow.defaultValue
       ELSE read

\* WritesTarget that also leaves null out
WritesNonNull(value) == value # Undef /\ value # Null

\* transformedValue !== undefined
WritesTarget(value) == value # Undef

\* the value of a row after transform and default fallback
\* (the row's transform is known to the registry)
RowValue(h, input, mappingRow) ==
    LET read == getByPath(h, input, mappingRow.source)
        transformedValue ==
            IF mappingRow.transformMethod # NoTransform
            THEN TRANSFORM_REGISTRY(mappingRow.transformMethod, read,
                                    mappingRow.defaultValue)
            ELSE read
    IN IF (transformedValue = Null \/ transformedValue = Undef)
          /\ mappingRow.defaultValue # Null /\ mappingRow.defaultValue # Undef
       THEN mappingRow.defaultValue
       ELSE transformedValue

\* The loop of applyMappingRows from row index onwards. The result carries the
\* heap, the status, the index of the failing row (0 when none) and, per
\* processed row, what was done and the JSON image of the output after it.
RECURSIVE applyLoop(_, _, _, _, _, _, _)
applyLoop(h, rows, index, input, outputObject, sparse, trace) ==
    IF index > Len(rows)
    THEN [status |-> "ok", heap |-> h, failAt |-> 0, trace |-> trace]
    ELSE
    LET mappingRow == rows[index]
    IN IF SkipsRow(h, input, mappingRow, sparse)
       THEN applyLoop(h, rows, index + 1, input, outputObject, sparse,
                Append(trace, [act |-> "skipped", value |-> Undef,
                               out |-> Json(h, Ref(outputObject))]))
       ELSE IF mappingRow.transformMethod # NoTransform
               /\ ~RegistryHas(mappingRow.transformMethod)
       THEN [status |-> "unknownTransform", heap |-> h, failAt |-> index,
             trace |-> trace]
       ELSE IF mappingRow.transformMethod \in InheritedKeys
       THEN [status |-> "typeError", heap |-> h, failAt |-> index,
             trace |-> trace]
       ELSE
       LET transformedValue == RowValue(h, input, mappingRow)
       IN IF mappingRow.isRequired /\ IsEmptyValue(transformedValue)
          THEN [status |-> "required", heap |-> h, failAt |-> index,
                trace |-> trace]
          ELSE IF WritesTarget(transformedValue)
          THEN LET h1 == setByPath(h, outputObject, mappingRow.target,
                                   transformedValue)
               IN applyLoop(h1, rows, index + 1, input, outputObject, sparse,
                     Append(trace, [act |-> "set", value |-> transformedValue,
                                    out |-> Json(h1, Ref(outputObject))]))
          ELSE applyLoop(h, rows, index + 1, input, outputObject, sparse,
                     Append(trace, [act |-> "unset", value |-> Undef,
                                    out |-> Json(h, Ref(outputObject))]))

\* applyMappingRows on a heap h that holds the rows' default objects; plainInput
\* is the content of the plain input object. The result is the record of
\* applyLoop with the JSON image of the returned object (out) when it returns.
applyMappingRows(h, rows, plainInput, sparse) ==
    LET inputAddr == FreshAddr(h)
        outputObject == inputAddr + 1
        h0 == [a \in DOMAIN h \cup {inputAddr, outputObject} |->
                 IF a = inputAddr THEN plainInput
                 ELSE IF a = outputObject THEN EmptyObject ELSE h[a]]
        res == applyLoop(h0, rows, 1, Ref(inputAddr), outputObject, sparse, <<>>)
    IN [status |-> res.status, failAt |-> res.failAt, trace |-> res.trace,
        heap |-> res.heap,
        out |-> IF res.status = "ok" THEN Json(res.heap, Ref(outputObject))
                ELSE {}]

(***************************************************************************)
(* Rule store (the FieldMapping table) and its two queries                 *)
(*                                                                         *)
(* A stored row keeps defaultValue as JSON: [v, o] with v the value and,   *)
(* when v is an object, o its content. Reading a row builds a fresh object.*)
(***************************************************************************)
MappingEntity == {"Product"}
MappingDirection == {"toEntity", "toZoho"}

JNull == [v |-> Null, o |-> EmptyObject]
JValue(value) == [v |-> value, o |-> EmptyObject]
JObject(object) == [v |-> Ref(0), o |-> object]

FieldMapping(entity, version, direction, source, target, required, method, default) ==
    [entity |-> entity, version |-> version, isRequired |-> required,
     source |-> source, target |-> target,
     transformMethod |-> method, defaultValue |-> default,
     direction |-> direction]

\* byte order of the characters that occur in paths
Alphabet == <<" ", ".", "N", "Q", "T", "a", "b", "n", "q", "t", "x">>
CharRank(char) == CHOOSE i \in 1..Len(Alphabet) : Alphabet[i] = char

\* text comparison p <= q
RECURSIVE TextLeq(_, _)
TextLeq(p, q) ==
    IF p = <<>> THEN TRUE
    ELSE IF q = <<>> THEN FALSE
    ELSE IF Head(p) = Head(q) THEN TextLeq(Tail(p), Tail(q))
    ELSE CharRank(Head(p)) < CharRank(Head(q))

\* RowLeq for the descending order
RowGeq(r1, r2) ==
    IF r1.source = r2.source THEN TextLeq(r2.target, r1.target)
    ELSE TextLeq(r2.source, r1.source)

\* order: { source: 'ASC', target: 'ASC' }
RowLeq(r1, r2) ==
    IF r1.source = r2.source THEN TextLeq(r1.target, r2.target)
    ELSE TextLeq(r1.source, r2.source)

RECURSIVE OrderRows(_)
OrderRows(rows) ==
    IF rows = {} THEN <<>>
    ELSE LET first == CHOOSE r \in rows : \A o \in rows : RowLeq(r, o)
         IN <<first>> \o OrderRows(rows \ {first})

\* mappingsRepository.find({ where: { entity, version }, order: ... }):
\* the stored rows, ordered
find(rows, entity, version) ==
    OrderRows({r \in rows : r.entity = entity /\ r.version = version})

\* getLatestVersion with MIN for MAX
getOldestVersion(rows, entity) ==
    LET versions == {r.version : r \in {q \in rows : q.entity = entity}}
    IN IF versions = {} THEN [ok |-> FALSE, max |-> 0]
       ELSE [ok |-> TRUE,
             max |-> CHOOSE v \in versions : \A w \in versions : v <= w]

\* SELECT MAX(version) WHERE entity = :entity, and the check of the result
getLatestVersion(rows, entity) ==
    LET versions == {r.version : r \in {q \in rows : q.entity = entity}}
    IN IF versions = {} THEN [ok |-> FALSE, max |-> 0]
       ELSE [ok |-> TRUE,
             max |-> CHOOSE v \in versions : \A w \in versions : w <= v]

\* the instances built from fetched rows: row i's default object is at address i
Instances(mappingRows) ==
    [i \in 1..Len(mappingRows) |->
        [mappingRows[i] EXCEPT !.defaultValue =
            IF isRecord(mappingRows[i].defaultValue.v) THEN Ref(i)
            ELSE mappingRows[i].defaultValue.v]]

InstanceHeap(mappingRows) ==
    [i \in {j \in 1..Len(mappingRows) : isRecord(mappingRows[j].defaultValue.v)}
        |-> mappingRows[i].defaultValue.o]

RECURSIVE FilterRows(_, _)
FilterRows(rows, direction) ==
    IF rows = <<>> THEN <<>>
    ELSE IF Head(rows).direction = direction
         THEN <<Head(rows)>> \o FilterRows(Tail(rows), direction)
    ELSE FilterRows(Tail(rows), direction)

\* `${entity}:${version ?? 'latest'}`; version is a number value or undefined
cacheKey(entity, version) ==
    entity \o ":" \o (IF IsNullish(version) THEN "latest"
                      ELSE NatToString(version.n))

\* NewCacheEntry without the two filters
UnfilteredCacheEntry(resolvedVersion, mappingRows) ==
    [version |-> resolvedVersion,
     toZoho |-> Instances(mappingRows),
     toEntity |-> Instances(mappingRows),
     heap |-> InstanceHeap(mappingRows)]

\* the CacheEntry built from fetched rows (loadedAt is not modelled); heap holds
\* the default objects of its rows
NewCacheEntry(resolvedVersion, mappingRows) ==
    [version |-> resolvedVersion,
     toZoho |-> FilterRows(Instances(mappingRows), "toZoho"),
     toEntity |-> FilterRows(Instances(mappingRows), "toEntity"),
     heap |-> InstanceHeap(mappingRows)]

(***************************************************************************)
(* The service as a state machine                                          *)
(***************************************************************************)
MaxVersion == 2
MaxCalls == 2

Calls == 1..MaxCalls
Versions == 1..MaxVersion

\* the version option of a call: undefined or a number
VersionOptions == {Undef} \cup {Num(v) : v \in Versions}

Path1(a) == <<a>>
Path2(a, b) == <<a, ".", b>>

\* the rule set published as the given version
Catalogue(version) ==
    IF version = 1
    THEN {FieldMapping("Product", 1, "toZoho", Path1("a"), Path1("t"), FALSE,
                       NoTransform, JObject([key \in {"x"} |-> Num(1)])),
          FieldMapping("Product", 1, "toZoho", Path1("b"), Path2("t", "x"),
                       FALSE, NoTransform, JNull),
          FieldMapping("Product", 1, "toZoho", Path1("n"), Path1("N"), TRUE,
                       NoTransform, JNull),
          FieldMapping("Product", 1, "toEntity", Path1("N"), Path1("n"), TRUE,
                       NoTransform, JNull)}
    ELSE {FieldMapping("Product", version, "toZoho", Path1("n"), Path1("N"),
                       TRUE, "toString", JNull),
          FieldMapping("Product", version, "toZoho", Path1("q"), Path1("Q"),
                       FALSE, "nullIfEmpty", JValue(Num(0))),
          FieldMapping("Product", version, "toEntity", Path1("N"), Path1("n"),
                       FALSE, NoTransform, JValue(Str("d")))}

\* plain inputs of the map() calls (toPlainObject drops undefined fields)
PlainInputs ==
    {EmptyObject,
     [key \in {"b"} |-> Num(5)],
     [key \in {"n"} |-> Str("k")],
     [key \in {"n", "b"} |-> IF key = "n" THEN Str("") ELSE Num(7)]}

\* the inputs used where calls interleave
ConcurrentInputs == {EmptyObject}

VARIABLES
    store,        \* the rows of the FieldMapping table
    cache,        \* FieldsMappingService.cache: key -> identity of its entry
    entries,      \* the CacheEntry objects alive, by identity
    calls,        \* the map() calls in flight, by slot
    last,         \* the operation that completed in the last step, with its result
    invalidatedMax, \* history: the store's maximum version when invalidate(entity)
                  \* last ran (0 before that)
    probe         \* history: one earlier map() result, kept for comparison

\* The products module around the mapping service (ProductsController,
\* ProductsService, OrderService) and what it writes to
VARIABLES
    products,     \* the rows of the products table, by local id
    zoho,         \* the Products records of the Zoho CRM, by record id
    index,        \* the records of the Algolia products index, by objectID
    orders,       \* the rows of the orders table: each the set of its products
    issued,       \* how many local ids and Zoho record ids have been handed out
    request       \* the request to the products controller that is in progress

shop == <<products, zoho, index, orders, issued, request>>

vars == <<store, cache, entries, calls, last, invalidatedMax, probe, shop>>

\* no request to the products controller is in progress; mapping, zohoCall,
\* localWrite and indexCall are history: how the calls of the request ended
\* so far
NoRequest ==
    [op |-> "none", pc |-> "idle",
     cookies |-> [accessToken |-> FALSE, apiDomain |-> FALSE],
     id |-> 0, payload |-> EmptyObject, zohoId |-> 0,
     mapping |-> "none", zohoCall |-> "none", localWrite |-> "none",
     indexCall |-> "none"]

\* the products module at rest, with empty tables
ShopAtRest ==
    /\ products = <<>>
    /\ zoho = <<>>
    /\ index = <<>>
    /\ orders = {}
    /\ issued = [product |-> 0, zoho |-> 0]
    /\ request = NoRequest

\* a call slot; hit and reads are history: whether the call found its key in
\* the cache, and how many queries it has sent to the rule store
Idle == [pc |-> "idle", version |-> Undef, resolvedVersion |-> 0,
         mappingRows |-> <<>>, entry |-> 0, hit |-> FALSE, reads |-> 0]

NoOp == [op |-> "none", direction |-> "toZoho", version |-> Undef,
         sparse |-> FALSE, input |-> EmptyObject, status |-> "", out |-> {},
         usedVersion |-> 0, latestVersion |-> 0, rows |-> <<>>, heap |-> EmptyObject,
         trace |-> <<>>, failAt |-> 0, removed |-> {}, hit |-> FALSE, reads |-> 0]

Internal == [NoOp EXCEPT !.op = "internal"]

NoProbe == [set |-> FALSE, direction |-> "toZoho", version |-> Undef,
            sparse |-> FALSE, input |-> EmptyObject, status |-> "", out |-> {}]

Init ==
    /\ store = {}
    /\ cache = [key \in {} |-> 0]
    /\ entries = <<>>
    /\ calls = [c \in Calls |-> Idle]
    /\ last = NoOp
    /\ invalidatedMax = 0
    /\ probe = NoProbe
    /\ ShopAtRest

Restrict(f, keep) == [x \in DOMAIN f \cap keep |-> f[x]]
MapDelete(map, keys) == [kk \in DOMAIN map \ keys |-> map[kk]]
MapSet(map, key, value) ==
    [kk \in DOMAIN map \cup {key} |-> IF kk = key THEN value ELSE map[kk]]

(* Entry identities are arbitrary; they are renumbered after every step in   *)
(* order of first reference (cache keys in key order, then the calls), and   *)
(* an entry nothing refers to any more is dropped.                           *)
KeyOrder == <<cacheKey("Product", Undef)>>
                \o [v \in Versions |-> cacheKey("Product", Num(v))]

References(newCache, newCalls) ==
    [i \in 1..Len(KeyOrder) |->
        IF KeyOrder[i] \in DOMAIN newCache THEN newCache[KeyOrder[i]] ELSE 0]
    \o [c \in Calls |-> IF newCalls[c].pc = "apply" THEN newCalls[c].entry ELSE 0]

Rank(refs, id) ==
    LET first == CHOOSE i \in 1..Len(refs) :
                    refs[i] = id /\ \A j \in 1..(i - 1) : refs[j] # id
    IN Cardinality({refs[j] : j \in 1..first} \ {0})

Renumber(newCache, newEntries, newCalls) ==
    LET refs == References(newCache, newCalls)
        live == {refs[i] : i \in 1..Len(refs)} \ {0}
    IN [cache |-> [key \in DOMAIN newCache |-> Rank(refs, newCache[key])],
        entries |-> [r \in 1..Cardinality(live) |->
                        newEntries[CHOOSE id \in live : Rank(refs, id) = r]],
        calls |-> [c \in Calls |->
                     IF newCalls[c].pc = "apply"
                     THEN [newCalls[c] EXCEPT !.entry = Rank(refs, newCalls[c].entry)]
                     ELSE newCalls[c]]]

Commit(newCache, newEntries, newCalls) ==
    LET n == Renumber(newCache, newEntries, newCalls)
    IN cache' = n.cache /\ entries' = n.entries /\ calls' = n.calls

\* the objects reachable from the roots
RECURSIVE Reach(_, _)
Reach(h, seen) ==
    LET more == {h[ak[1]][ak[2]].n : ak \in
                    {bk \in seen \X UNION {DOMAIN h[b] : b \in seen} :
                        bk[2] \in DOMAIN h[bk[1]] /\ isRecord(h[bk[1]][bk[2]])}}
    IN IF more \subseteq seen THEN seen ELSE Reach(h, seen \cup more)

\* the default objects of the rows of an entry
DefaultRoots(entry) ==
    {entry.toZoho[i].defaultValue.n :
        i \in {j \in 1..Len(entry.toZoho) : isRecord(entry.toZoho[j].defaultValue)}}
    \cup {entry.toEntity[i].defaultValue.n :
        i \in {j \in 1..Len(entry.toEntity) :
                  isRecord(entry.toEntity[j].defaultValue)}}

\* the highest version with a row in the table for the entity, 0 when none
MaxPublished(rows, entity) ==
    LET versions == {0} \cup {r.version : r \in {q \in rows : q.entity = entity}}
    IN CHOOSE v \in versions : \A w \in versions : w <= v

(* A new rule version is published in the table (by the management          *)
(* collaborator): versions are published in increasing order.               *)
Publish ==
    LET next == MaxPublished(store, "Product") + 1
    IN /\ next <= MaxVersion
       /\ store' = store \cup Catalogue(next)
       /\ last' = [NoOp EXCEPT !.op = "publish"]
       /\ probe' = NoProbe
       /\ UNCHANGED <<cache, entries, calls, invalidatedMax, shop>>

\* FirstQuery that asks for the maximum version whatever the version option
FirstQueryMax(version) == "max"

\* version ?? (await this.getLatestVersion(entity)): the query a call that
\* missed the cache sends first
FirstQuery(version) == IF IsNullish(version) THEN "max" ELSE "find"

(* toZoho / toEntity up to the first await of loadMappings: the cache       *)
(* lookup. Both methods do the same until loadMappings has returned, so the *)
(* method that is running is told apart from there on.                      *)
MapStart(c, version) ==
    /\ calls[c].pc = "idle"
    /\ LET key == cacheKey("Product", version)
           newCalls == [calls EXCEPT ![c] =
                IF key \in DOMAIN cache
                THEN [Idle EXCEPT !.pc = "apply", !.version = version,
                                  !.entry = cache[key], !.hit = TRUE]
                ELSE [Idle EXCEPT !.pc = FirstQuery(version), !.version = version,
                                  !.resolvedVersion =
                                      IF IsNullish(version) THEN 0 ELSE version.n]]
       IN Commit(cache, entries, newCalls)
    /\ last' = Internal
    /\ UNCHANGED <<store, invalidatedMax, probe, shop>>

(* loadMappings: the MAX(version) query of getLatestVersion is answered     *)
LoadLatestVersion(c) ==
    /\ calls[c].pc = "max"
    /\ LET latest == getLatestVersion(store, "Product")
       IN IF latest.ok
          THEN /\ calls' = [calls EXCEPT ![c].pc = "find",
                                         ![c].resolvedVersion = latest.max,
                                         ![c].reads = @ + 1]
               /\ last' = Internal
          ELSE /\ calls' = [calls EXCEPT ![c] = Idle]
               /\ last' = [NoOp EXCEPT !.op = "map",
                                       !.version = calls[c].version,
                                       !.reads = calls[c].reads + 1,
                                       !.status = "noMappings"]
    /\ UNCHANGED <<store, cache, entries, invalidatedMax, probe, shop>>

(* loadMappings: the find query is answered                                 *)
LoadFind(c) ==
    /\ calls[c].pc = "find"
    /\ calls' = [calls EXCEPT ![c].pc = "store",
                   ![c].reads = @ + 1,
                   ![c].mappingRows =
                       find(store, "Product", calls[c].resolvedVersion)]
    /\ last' = Internal
    /\ UNCHANGED <<store, cache, entries, invalidatedMax, probe, shop>>

\* NoRowsFound that never holds
RowsAlwaysFound(mappingRows) == FALSE

\* mappingRows.length === 0
NoRowsFound(mappingRows) == Len(mappingRows) = 0

(* loadMappings after the find: the empty check, the entry, cache.set       *)
LoadStore(c) ==
    /\ calls[c].pc = "store"
    /\ IF NoRowsFound(calls[c].mappingRows)
       THEN /\ calls' = [calls EXCEPT ![c] = Idle]
            /\ last' = [NoOp EXCEPT !.op = "map",
                                    !.version = calls[c].version,
                                    !.usedVersion = calls[c].resolvedVersion,
                                    !.reads = calls[c].reads,
                                    !.status = "noRows"]
            /\ UNCHANGED <<cache, entries>>
       ELSE LET id == Len(entries) + 1
                key == cacheKey("Product", calls[c].version)
            IN /\ Commit(MapSet(cache, key, id),
                         Append(entries,
                                NewCacheEntry(calls[c].resolvedVersion,
                                              calls[c].mappingRows)),
                         [calls EXCEPT ![c] =
                             [Idle EXCEPT !.pc = "apply",
                                          !.version = calls[c].version,
                                          !.reads = calls[c].reads,
                                          !.entry = id]])
               /\ last' = Internal
    /\ UNCHANGED <<store, invalidatedMax, probe, shop>>

(* toZoho / toEntity after loadMappings returned: toPlainObject and          *)
(* applyMappingRows on the rows of the entry the call holds. plainInput and  *)
(* options.sparse are read here. With record, the result is also kept in     *)
(* probe (history only).                                                     *)
\* DirectionRows that takes the to-external rows for both directions
ZohoRowsOnly(entry, direction) == entry.toZoho

DirectionRows(entry, direction) ==
    IF direction = "toZoho" THEN entry.toZoho ELSE entry.toEntity

\* the state after applyMappingRows returned res for call c
MapReturn(c, direction, plainInput, sparse, record, entry, res) ==
    /\ Commit(cache,
              [entries EXCEPT ![calls[c].entry] =
                  [entry EXCEPT !.heap =
                      Restrict(res.heap, Reach(res.heap, DefaultRoots(entry)))]],
              [calls EXCEPT ![c] = Idle])
    /\ last' = [op |-> "map", direction |-> direction,
                version |-> calls[c].version, sparse |-> sparse,
                input |-> plainInput, status |-> res.status,
                out |-> res.out, usedVersion |-> entry.version,
                latestVersion |-> 0,
                rows |-> DirectionRows(entry, direction), heap |-> entry.heap,
                trace |-> res.trace, failAt |-> res.failAt, removed |-> {},
                hit |-> calls[c].hit, reads |-> calls[c].reads]
    /\ probe' = IF record
                THEN [set |-> TRUE, direction |-> direction,
                      version |-> calls[c].version, sparse |-> sparse,
                      input |-> plainInput, status |-> res.status,
                      out |-> res.out]
                ELSE probe
    /\ UNCHANGED <<store, invalidatedMax, shop>>

MapApply(c, direction, plainInput, sparse, record) ==
    /\ calls[c].pc = "apply"
    /\ MapReturn(c, direction, plainInput, sparse, record,
                 entries[calls[c].entry],
                 applyMappingRows(entries[calls[c].entry].heap,
                     DirectionRows(entries[calls[c].entry], direction),
                     plainInput, sparse))

\* toZoho: sparse is options?.sparse ?? false
toZoho(c, inputs) ==
    \E plainInput \in inputs : \E sparse \in BOOLEAN :
        MapApply(c, "toZoho", plainInput, sparse, FALSE)

\* EntitySparse that follows the caller's options
EntitySparseAsAsked(asked) == asked

\* toEntity passes sparse: false, whatever its options object holds
EntitySparse(asked) == FALSE

\* toEntity; asked is the sparse field of the options object, which the
\* method's type does not declare and its body does not read
toEntity(c, inputs) ==
    \E plainInput \in inputs : \E asked \in BOOLEAN :
        MapApply(c, "toEntity", plainInput, EntitySparse(asked), FALSE)

(* The public getLatestVersion(entity)                                      *)
GetLatestVersion(entity) ==
    /\ LET latest == getLatestVersion(store, entity)
       IN last' = [NoOp EXCEPT !.op = "getLatestVersion",
                               !.status = IF latest.ok THEN "ok" ELSE "noMappings",
                               !.latestVersion = latest.max]
    /\ UNCHANGED <<store, cache, entries, calls, invalidatedMax, probe, shop>>

\* invalidateKeys that drops the "latest" key whatever the version
invalidateKeysAndLatest(entity, version) ==
    {cacheKey(entity, version), cacheKey(entity, Undef)}

\* the keys invalidate(entity, version) deletes from the cache
invalidateKeys(entity, version) ==
    {cacheKey(entity, version)}
        \cup (IF version = Undef THEN {cacheKey(entity, Undef)} ELSE {})

(* invalidate(entity, version?)                                             *)
Invalidate(entity, version) ==
    /\ Commit(MapDelete(cache, invalidateKeys(entity, version)), entries, calls)
    /\ invalidatedMax' = IF version = Undef THEN MaxPublished(store, entity)
                         ELSE invalidatedMax
    /\ last' = [NoOp EXCEPT !.op = "invalidate", !.version = version,
                            !.removed = DOMAIN cache \ DOMAIN cache']
    /\ UNCHANGED <<store, probe, shop>>

Next ==
    \/ Publish
    \/ \E c \in Calls : \E version \in VersionOptions : MapStart(c, version)
    \/ \E c \in Calls : LoadLatestVersion(c)
    \/ \E c \in Calls : LoadFind(c)
    \/ \E c \in Calls : LoadStore(c)
    \/ \E c \in Calls : toZoho(c, ConcurrentInputs)
    \/ \E c \in Calls : toEntity(c, ConcurrentInputs)
    \/ GetLatestVersion("Product")
    \/ \E version \in VersionOptions : Invalidate("Product", version)

Spec == Init /\ [][Next]_vars

(* One caller that awaits every call before it makes the next (slot 1),      *)
(* with every plain input.                                                   *)
NextSeq ==
    \/ Publish
    \/ \E version \in VersionOptions : MapStart(1, version)
    \/ LoadLatestVersion(1)
    \/ LoadFind(1)
    \/ LoadStore(1)
    \/ toZoho(1, PlainInputs)
    \/ toEntity(1, PlainInputs)
    \/ GetLatestVersion("Product")
    \/ \E version \in VersionOptions : Invalidate("Product", version)

SpecSeq == Init /\ [][NextSeq]_vars

(* The rule store may also fail to answer: the promise of the query is      *)
(* rejected. Neither getLatestVersion nor loadMappings catches, so the       *)
(* rejection leaves loadMappings and the map() call with the error of the    *)
(* repository.                                                               *)
StoreRejects(c, query) ==
    /\ calls[c].pc = query
    /\ calls' = [calls EXCEPT ![c] = Idle]
    /\ last' = [NoOp EXCEPT !.op = "map",
                            !.version = calls[c].version,
                            !.usedVersion = calls[c].resolvedVersion,
                            !.reads = calls[c].reads + 1,
                            !.status = "queryFailed"]
    /\ UNCHANGED <<store, cache, entries, invalidatedMax, probe, shop>>

(* loadMappings: the MAX(version) query of getLatestVersion fails            *)
LoadLatestVersionRejected(c) == StoreRejects(c, "max")

(* loadMappings: the find query fails                                        *)
LoadFindRejected(c) == StoreRejects(c, "find")

(* One caller, with a rule store whose queries may fail.                     *)
NextFail ==
    \/ Publish
    \/ \E version \in VersionOptions : MapStart(1, version)
    \/ LoadLatestVersion(1)
    \/ LoadLatestVersionRejected(1)
    \/ LoadFind(1)
    \/ LoadFindRejected(1)
    \/ LoadStore(1)
    \/ toZoho(1, PlainInputs)
    \/ toEntity(1, PlainInputs)
    \/ \E version \in VersionOptions : Invalidate("Product", version)

SpecFail == Init /\ [][NextFail]_vars

(* A version may be published with rules for one direction only: here the   *)
(* to-external rules of the catalogue.                                       *)
PublishToZohoOnly ==
    LET next == MaxPublished(store, "Product") + 1
    IN /\ next <= MaxVersion
       /\ store' = store \cup {r \in Catalogue(next) : r.direction = "toZoho"}
       /\ last' = [NoOp EXCEPT !.op = "publish"]
       /\ probe' = NoProbe
       /\ UNCHANGED <<cache, entries, calls, invalidatedMax, shop>>

(* One caller that maps the empty record, with versions published in full    *)
(* or for one direction.                                                     *)
NextOneWay ==
    \/ Publish
    \/ PublishToZohoOnly
    \/ \E version \in VersionOptions : MapStart(1, version)
    \/ LoadLatestVersion(1)
    \/ LoadFind(1)
    \/ LoadStore(1)
    \/ toZoho(1, ConcurrentInputs)
    \/ toEntity(1, ConcurrentInputs)
    \/ \E version \in VersionOptions : Invalidate("Product", version)

SpecOneWay == Init /\ [][NextOneWay]_vars

(***************************************************************************)
(* The products module: ProductsController, ProductsService, OrderService  *)
(*                                                                         *)
(* One request is in progress at a time. A service method is a sequence of *)
(* steps, one per awaited call; the call to the mapping service is made of *)
(* the steps of toZoho above, on call slot 1. Zoho, the database and the   *)
(* Algolia index answer as they please: every awaited call may be rejected. *)
(***************************************************************************)
MaxProducts == 1

\* the variables of the mapping service and its rule store
mappingService == <<store, cache, entries, calls, invalidatedMax, probe>>

\* request bodies, as plain inputs of the mapping service
ShopPayloads ==
    {[key \in {"n"} |-> Str("k")],
     [key \in {"n", "b"} |-> IF key = "n" THEN Str("") ELSE Num(7)]}

\* req.cookies: whether each of the two cookies is there
Cookies == [accessToken : BOOLEAN, apiDomain : BOOLEAN]

\* extractCtx: throws UnauthorizedException without the access token; the
\* API domain falls back to API_DOMAIN_FALLBACK
extractCtx(cookies) == [ok |-> cookies.accessToken]

\* what Zoho answers to a request: the HTTP status is ok or not, and the first
\* element of data has a status and may have details.id
ZohoAnswers ==
    {[ok |-> FALSE, status |-> "error", hasId |-> FALSE],
     [ok |-> TRUE, status |-> "error", hasId |-> FALSE],
     [ok |-> TRUE, status |-> "error", hasId |-> TRUE],
     [ok |-> TRUE, status |-> "success", hasId |-> TRUE]}

\* Zoho has carried out the request it answers this way
ZohoDid(answer) == answer.ok /\ answer.status = "success"

\* how a rejected or refused Zoho call is kept in the request's history
ZohoCallFailed(answer) == IF answer.ok THEN "refused" ELSE "rejected"

\* ZohoCreated that takes every answer with HTTP status ok
ZohoAnswered(first) == TRUE

\* !(!zohoId || first?.status !== 'success')
ZohoCreated(first) == first.hasId /\ first.status = "success"

\* !(first?.status !== 'success')
ZohoUpdated(first) == first.status = "success"

\* the status of the operation after its indexer call, were its error rethrown
IndexerRethrown(indexed) == IF indexed THEN "ok" ELSE "indexFailed"

\* try { await this.indexer... } catch (e) { this.logger.error(...) }: the
\* status of the operation after its indexer call
IndexerCaught(indexed) == "ok"

\* AssignedToOrders that finds no order
NeverAssigned(id) == FALSE

\* product.orders?.length, with relations: ['orders']
AssignedToOrders(id) == \E order \in orders : id \in order

\* { ...existing, ...payload }
Spread(existing, payload) ==
    [key \in DOMAIN existing \cup DOMAIN payload |->
        IF key \in DOMAIN payload THEN payload[key] ELSE existing[key]]

\* the request ends with the given status; final is the request with its history
Done(final, status) ==
    /\ request' = NoRequest
    /\ last' = [op |-> final.op, status |-> status, request |-> final]

\* the controller method throws what extractCtx throws
Unauthorized(op, cookies) ==
    /\ last' = [op |-> op, status |-> "unauthorized",
                request |-> [NoRequest EXCEPT !.op = op, !.cookies = cookies]]
    /\ UNCHANGED <<mappingService, shop>>

\* the controller method calls the service method
Accepted(op, cookies, id, payload, pc) ==
    /\ request' = [NoRequest EXCEPT !.op = op, !.pc = pc, !.cookies = cookies,
                                    !.id = id, !.payload = payload]
    /\ last' = Internal
    /\ UNCHANGED <<mappingService, products, zoho, index, orders, issued>>

(* POST /products: ProductsController.create, up to the call of toZoho      *)
ControllerCreate(cookies, payload) ==
    /\ request.pc = "idle"
    /\ issued.product < MaxProducts /\ issued.zoho < MaxProducts
    /\ IF extractCtx(cookies).ok
       THEN Accepted("create", cookies, 0, payload, "mapping")
       ELSE Unauthorized("create", cookies)

\* the request waits for toZoho of the mapping service
Mapping == request.pc = "mapping" /\ last.op # "map"

\* toZoho has returned or thrown
Mapped == request.pc = "mapping" /\ last.op = "map"

\* the service method fails before any write of its own
Fails(final, status) ==
    /\ Done(final, status)
    /\ UNCHANGED <<mappingService, products, zoho, index, orders, issued>>

(* ProductsService.create: the answer of Zoho to POST /Products             *)
CreateZoho ==
    /\ request.op = "create" /\ Mapped
    /\ IF last.status # "ok"
       THEN Fails([request EXCEPT !.mapping = "failed"], "mappingFailed")
       ELSE \E answer \in ZohoAnswers :
          IF answer.ok /\ ZohoCreated(answer)
          THEN /\ zoho' = IF ZohoDid(answer)
                          THEN MapSet(zoho, issued.zoho + 1, request.payload)
                          ELSE zoho
               /\ issued' = [issued EXCEPT !.zoho = @ + 1]
               /\ request' = [request EXCEPT !.pc = "save", !.mapping = "ok",
                                             !.zohoId = issued.zoho + 1,
                                             !.zohoCall = IF ZohoDid(answer)
                                                          THEN "success"
                                                          ELSE "refused"]
               /\ last' = Internal
               /\ UNCHANGED <<mappingService, products, index, orders>>
          ELSE Fails([request EXCEPT !.mapping = "ok",
                                     !.zohoCall = ZohoCallFailed(answer)],
                     "zohoFailed")

(* ProductsService.create: productsRepository.save                          *)
CreateSave ==
    /\ request.op = "create" /\ request.pc = "save"
    /\ \E written \in BOOLEAN :
          IF written
          THEN /\ products' = MapSet(products, issued.product + 1,
                                     [zohoId |-> request.zohoId,
                                      data |-> request.payload])
               /\ issued' = [issued EXCEPT !.product = @ + 1]
               /\ request' = [request EXCEPT !.pc = "index",
                                             !.id = issued.product + 1,
                                             !.localWrite = "ok"]
               /\ last' = Internal
               /\ UNCHANGED <<mappingService, zoho, index, orders>>
          ELSE Fails([request EXCEPT !.localWrite = "rejected"], "saveFailed")

\* the end of a method after its indexer call
Indexed(indexed, newIndex) ==
    /\ index' = IF indexed THEN newIndex ELSE index
    /\ Done([request EXCEPT !.indexCall = IF indexed THEN "ok" ELSE "rejected"],
            IndexerCaught(indexed))
    /\ UNCHANGED <<mappingService, products, zoho, orders, issued>>

(* ProductsService.create: indexer.upsert(saved) and the return             *)
CreateIndex ==
    /\ request.op = "create" /\ request.pc = "index"
    /\ \E indexed \in BOOLEAN :
          Indexed(indexed, MapSet(index, request.id, products[request.id].data))

(* PATCH /products/:id: ProductsController.update                           *)
ControllerUpdate(cookies, id, payload) ==
    /\ request.pc = "idle"
    /\ IF extractCtx(cookies).ok
       THEN Accepted("update", cookies, id, payload, "find")
       ELSE Unauthorized("update", cookies)

(* ProductsService.update: findOne and the test of existing.zohoId          *)
UpdateFind ==
    /\ request.op = "update" /\ request.pc = "find"
    /\ IF request.id \notin DOMAIN products THEN Fails(request, "notFound")
       ELSE /\ request' = [request EXCEPT
                   !.zohoId = products[request.id].zohoId,
                   !.pc = IF products[request.id].zohoId # 0 THEN "mapping"
                          ELSE "save"]
            /\ last' = Internal
            /\ UNCHANGED <<mappingService, products, zoho, index, orders, issued>>

(* ProductsService.update: the answer of Zoho to PUT /Products/{zohoId}     *)
UpdateZoho ==
    /\ request.op = "update" /\ Mapped
    /\ IF last.status # "ok"
       THEN Fails([request EXCEPT !.mapping = "failed"], "mappingFailed")
       ELSE \E answer \in ZohoAnswers :
          /\ ZohoDid(answer) => request.zohoId \in DOMAIN zoho
          /\ IF answer.ok /\ ZohoUpdated(answer)
             THEN /\ zoho' = [zoho EXCEPT ![request.zohoId] = request.payload]
                  /\ request' = [request EXCEPT !.pc = "save",
                                                !.mapping = "ok",
                                                !.zohoCall = "success"]
                  /\ last' = Internal
                  /\ UNCHANGED <<mappingService, products, index, orders, issued>>
             ELSE Fails([request EXCEPT !.mapping = "ok",
                                        !.zohoCall = ZohoCallFailed(answer)],
                        "zohoFailed")

(* ProductsService.update: productsRepository.update                        *)
UpdateSave ==
    /\ request.op = "update" /\ request.pc = "save"
    /\ \E written \in BOOLEAN :
          IF written
          THEN /\ products' = [products EXCEPT ![request.id].data =
                                   Spread(@, request.payload)]
               /\ request' = [request EXCEPT !.pc = "index", !.localWrite = "ok"]
               /\ last' = Internal
               /\ UNCHANGED <<mappingService, zoho, index, orders, issued>>
          ELSE Fails([request EXCEPT !.localWrite = "rejected"], "saveFailed")

(* ProductsService.update: findOne, indexer.upsert(fresh) and the return    *)
UpdateIndex ==
    /\ request.op = "update" /\ request.pc = "index"
    /\ \E indexed \in BOOLEAN :
          Indexed(indexed, MapSet(index, request.id, products[request.id].data))

(* DELETE /products/:id: ProductsController.delete                          *)
ControllerDelete(cookies, id) ==
    /\ request.pc = "idle"
    /\ IF extractCtx(cookies).ok
       THEN Accepted("delete", cookies, id, EmptyObject, "find")
       ELSE Unauthorized("delete", cookies)

(* ProductsService.delete: findOne with its orders, and the two tests       *)
DeleteFind ==
    /\ request.op = "delete" /\ request.pc = "find"
    /\ IF request.id \notin DOMAIN products THEN Fails(request, "notFound")
       ELSE IF AssignedToOrders(request.id)
       THEN Fails(request, "methodNotAllowed")
       ELSE /\ request' = [request EXCEPT
                   !.zohoId = products[request.id].zohoId,
                   !.pc = IF products[request.id].zohoId # 0 THEN "zoho"
                          ELSE "delete"]
            /\ last' = Internal
            /\ UNCHANGED <<mappingService, products, zoho, index, orders, issued>>

(* ProductsService.delete: the answer of Zoho to DELETE /Products/{zohoId}; *)
(* only its HTTP status is looked at                                        *)
DeleteZoho ==
    /\ request.op = "delete" /\ request.pc = "zoho"
    /\ \E ok \in BOOLEAN :
          IF ok
          THEN /\ zoho' = MapDelete(zoho, {request.zohoId})
               /\ request' = [request EXCEPT !.pc = "delete",
                                             !.zohoCall = "success"]
               /\ last' = Internal
               /\ UNCHANGED <<mappingService, products, index, orders, issued>>
          ELSE Fails([request EXCEPT !.zohoCall = "rejected"], "zohoFailed")

(* ProductsService.delete: productsRepository.delete                        *)
DeleteLocal ==
    /\ request.op = "delete" /\ request.pc = "delete"
    /\ \E written \in BOOLEAN :
          IF written
          THEN /\ products' = MapDelete(products, {request.id})
               /\ request' = [request EXCEPT !.pc = "index", !.localWrite = "ok"]
               /\ last' = Internal
               /\ UNCHANGED <<mappingService, zoho, index, orders, issued>>
          ELSE Fails([request EXCEPT !.localWrite = "rejected"], "deleteFailed")

(* ProductsService.delete: indexer.remove and the return                    *)
DeleteIndex ==
    /\ request.op = "delete" /\ request.pc = "index"
    /\ \E indexed \in BOOLEAN : Indexed(indexed, MapDelete(index, {request.id}))

\* the lists of product ids of a CreateOrderDTO (ArrayNotEmpty)
IdLists ==
    {<<id>> : id \in 1..MaxProducts}
        \cup {<<id1, id2>> : id1 \in 1..MaxProducts, id2 \in 1..MaxProducts}

\* ProductsService.readByIdList: find({ where: { id: In(idList) } }) returns the
\* rows whose id is in the list, each once
readByIdList(idList) ==
    LET found == {id \in DOMAIN products : \E i \in 1..Len(idList) : idList[i] = id}
    IN [ok |-> Cardinality(found) = Len(idList), products |-> found]

(* POST /orders: OrderService.create                                        *)
OrderCreate(productsIds) ==
    /\ request.pc = "idle"
    /\ orders' = IF readByIdList(productsIds).ok
                 THEN orders \cup {readByIdList(productsIds).products}
                 ELSE orders
    /\ last' = [op |-> "orderCreate", productsIds |-> productsIds,
                status |-> IF readByIdList(productsIds).ok THEN "ok"
                           ELSE "notFound"]
    /\ UNCHANGED <<mappingService, products, zoho, index, issued, request>>

(* The tables hold version 1 of the rules, and either no product or one     *)
(* product that was made before the Zoho integration: its zohoId is null.   *)
InitShop ==
    /\ store = Catalogue(1)
    /\ cache = [key \in {} |-> 0]
    /\ entries = <<>>
    /\ calls = [c \in Calls |-> Idle]
    /\ last = NoOp
    /\ invalidatedMax = 0
    /\ probe = NoProbe
    /\ \E legacy \in 0..1 :
          /\ products = [id \in 1..legacy |-> [zohoId |-> 0, data |-> EmptyObject]]
          /\ issued = [product |-> legacy, zoho |-> 0]
    /\ zoho = <<>>
    /\ index = <<>>
    /\ orders = {}
    /\ request = NoRequest

NextShop ==
    \/ \E cookies \in Cookies : \E payload \in ShopPayloads :
          ControllerCreate(cookies, payload)
    \/ \E cookies \in Cookies : \E id \in 1..MaxProducts :
          \E payload \in ShopPayloads : ControllerUpdate(cookies, id, payload)
    \/ \E cookies \in Cookies : \E id \in 1..MaxProducts :
          ControllerDelete(cookies, id)
    \/ Mapping /\ MapStart(1, Undef)
    \/ Mapping /\ LoadLatestVersion(1)
    \/ Mapping /\ LoadFind(1)
    \/ Mapping /\ LoadStore(1)
    \/ Mapping /\ MapApply(1, "toZoho", request.payload, TRUE, FALSE)
    \/ CreateZoho
    \/ CreateSave
    \/ CreateIndex
    \/ UpdateFind
    \/ UpdateZoho
    \/ UpdateSave
    \/ UpdateIndex
    \/ DeleteFind
    \/ DeleteZoho
    \/ DeleteLocal
    \/ DeleteIndex
    \/ \E productsIds \in IdLists : OrderCreate(productsIds)

SpecShop == InitShop /\ [][NextShop]_vars

(* GET /products/search: the controller reads the query parameters page and  *)
(* limit as texts, and the service turns the page of the API into the page   *)
(* of the index.                                                             *)

\* longest numeral of the page parameter, and of the limit parameter (long
\* enough for a limit above the cap of 1000)
MaxPageText == 2
MaxLimitText == 4

\* the texts of a query parameter: numerals of the digits 0 and 2, and texts
\* with a minus sign (not a number, minus zero, a negative number, not a
\* number); no white space, so that Number() below is exactly the conversion
\* of the language on these texts
QueryDigits == {"0", "2"}

SignedTexts == {<<"-">>, <<"-", "0">>, <<"-", "2">>, <<"2", "-">>}

QueryTexts(longest) == SignedTexts \cup UNION {[1..n -> QueryDigits] : n \in 0..longest}

\* a query parameter: given with a text (?page= gives the empty text), or not
\* given at all
QueryParams(longest) ==
    {[given |-> FALSE, text |-> <<>>]}
        \cup {[given |-> TRUE, text |-> text] : text \in QueryTexts(longest)}

\* a parameter default (page = '1'): taken only when the parameter is not given
Default(param, text) == IF param.given THEN param.text ELSE text

IsDigits(text) ==
    /\ Len(text) > 0
    /\ \A i \in 1..Len(text) : \E d \in 1..10 : Digits[d] = text[i]

DigitValue(char) == CHOOSE d \in 0..9 : Digits[d + 1] = char

RECURSIVE Decimal(_)
Decimal(text) ==
    IF text = <<>> THEN 0
    ELSE Decimal(SubSeq(text, 1, Len(text) - 1)) * 10 + DigitValue(text[Len(text)])

\* Number(text): 0 for the empty text, the value of a decimal numeral with an
\* optional minus sign, NaN for every other text
Number(text) ==
    IF text = <<>> THEN Num(0)
    ELSE IF IsDigits(text) THEN Num(Decimal(text))
    ELSE IF text[1] = "-" /\ IsDigits(Tail(text)) THEN Num(0 - Decimal(Tail(text)))
    ELSE NaN

\* number || fallback: NaN and 0 (and -0) are falsy
OrElse(number, fallback) == IF number = NaN \/ number.n = 0 THEN fallback ELSE number.n

MathMax(a, b) == IF a >= b THEN a ELSE b
MathMin(a, b) == IF a <= b THEN a ELSE b

\* const pageNum = Math.max(1, Number(page) || 1)
pageNum(page) == MathMax(1, OrElse(Number(page), 1))

\* const hitsPerPage = Math.max(1, Math.min(1000, Number(limit) || 20))
hitsPerPage(limit) == MathMax(1, MathMin(1000, OrElse(Number(limit), 20)))

\* algoliaPage that sends the page of the API as it is
OneBasedPage(page) == MathMax(0, IF page = 0 THEN 1 ELSE page)

\* const algoliaPage = Math.max(0, (page || 1) - 1)
algoliaPage(page) == MathMax(0, (IF page = 0 THEN 1 ELSE page) - 1)

\* ProductsService.search: the searchParams of the call to the index
search(page, perPage) == [page |-> algoliaPage(page), hitsPerPage |-> perPage]

(* ProductsController.search                                                 *)
ControllerSearch(page, limit) ==
    /\ request.pc = "idle"
    /\ last' = [op |-> "search", page |-> page, limit |-> limit,
                searchParams |-> search(pageNum(Default(page, <<"1">>)),
                                        hitsPerPage(Default(limit, <<"2", "0">>)))]
    /\ UNCHANGED <<mappingService, shop>>

NextSearch ==
    \E page \in QueryParams(MaxPageText) : \E limit \in QueryParams(MaxLimitText) :
        ControllerSearch(page, limit)

SpecSearch == Init /\ [][NextSearch]_vars

(* Rule application on its own: the table holds one rule set, drawn from    *)
(* RuleSets, as version 1; one caller maps every input of ApplyInputs to    *)
(* the external shape, in full and in sparse mode.                           *)
TestedRules ==
    {FieldMapping("Product", 1, "toZoho", Path1("a"), Path1("t"), isRequired,
                  transformMethod, defaultValue) :
        isRequired \in BOOLEAN,
        transformMethod \in {NoTransform, "doesNotExist", "valueOf"}
                                \cup TransformMethod,
        defaultValue \in {JNull, JValue(Str("")), JValue(Num(7)),
                          JObject([key \in {"x"} |-> Num(1)])}}

CompanionRules ==
    {FieldMapping("Product", 1, "toZoho", Path1("b"), Path2("t", "x"), FALSE,
                  NoTransform, JNull),
     FieldMapping("Product", 1, "toZoho", Path1("b"), Path1("u"), TRUE,
                  NoTransform, JNull)}

RuleSets == {{r} : r \in TestedRules}
                \cup {{r, q} : r \in TestedRules, q \in CompanionRules}

ApplyInputs ==
    {[key \in keys |-> IF key = "a" THEN a ELSE Num(5)] :
        keys \in SUBSET {"a", "b"}, a \in {Null, Str(""), Str("5")}}

InitApply ==
    /\ store \in RuleSets
    /\ cache = [key \in {} |-> 0]
    /\ entries = <<>>
    /\ calls = [c \in Calls |-> Idle]
    /\ last = NoOp
    /\ invalidatedMax = 0
    /\ probe = NoProbe
    /\ ShopAtRest

NextApply ==
    \/ MapStart(1, Undef)
    \/ LoadLatestVersion(1)
    \/ LoadFind(1)
    \/ LoadStore(1)
    \/ toZoho(1, ApplyInputs)

SpecApply == InitApply /\ [][NextApply]_vars

(* The path accessors and the rule loop as functions: every step applies   *)
(* one of them to a record of PathRecords (a heap whose object 1 is the     *)
(* record) and a path of PathStrings, or applies one rule of PathRules to   *)
(* an input, and keeps the arguments and the result in last.                *)
PathRecords ==
    {<<EmptyObject>>,
     <<[key \in {"a"} |-> Num(5)]>>,
     <<[key \in {"a"} |-> Null]>>,
     <<[key \in {"a"} |-> Str("s")]>>,
     <<[key \in {"a"} |-> Ref(2)], EmptyObject>>,
     <<[key \in {"a"} |-> Ref(2)], [key \in {"b"} |-> Num(5)]>>,
     <<[key \in {"a"} |-> Ref(2)], [key \in {"b"} |-> Null]>>}

PathStrings ==
    {<<>>, <<".">>, <<" ">>, <<" ", ".", " ">>,
     <<"a">>, <<" ", "a", " ">>, <<"a", ".">>, <<"b">>,
     <<"a", ".", "b">>, <<" ", "a", " ", ".", " ", "b", " ">>,
     <<"a", ".", ".", "b">>, <<".", "a", ".", "b", ".">>,
     <<"b", ".", "a">>, <<"a", ".", "b", ".", "c">>}

PathRoots == {Ref(1), Null, Undef}
PathValues == {Num(9), Null, Str("")}

PathRules ==
    {FieldMapping("Product", 1, "toZoho", Path1("a"), Path1("t"), isRequired,
                  NoTransform, defaultValue) :
        isRequired \in BOOLEAN, defaultValue \in {JNull, JValue(Num(7))}}

PathOp == [op |-> "none", heap |-> <<>>, root |-> Undef, path |-> <<>>,
           value |-> Undef, got |-> Undef, own |-> FALSE, after |-> <<>>,
           sparse |-> FALSE, rows |-> <<>>, status |-> "", trace |-> <<>>,
           failAt |-> 0]

GetByPath(h, sourceObject, path) ==
    /\ last' = [PathOp EXCEPT !.op = "getByPath", !.heap = h,
                              !.root = sourceObject, !.path = path,
                              !.got = getByPath(h, sourceObject, path)]
    /\ UNCHANGED <<store, cache, entries, calls, invalidatedMax, probe, shop>>

HasOwnByPath(h, sourceObject, path) ==
    /\ last' = [PathOp EXCEPT !.op = "hasOwnByPath", !.heap = h,
                              !.root = sourceObject, !.path = path,
                              !.own = hasOwnByPath(h, sourceObject, path)]
    /\ UNCHANGED <<store, cache, entries, calls, invalidatedMax, probe, shop>>

SetByPath(h, path, value) ==
    /\ last' = [PathOp EXCEPT !.op = "setByPath", !.heap = h, !.root = Ref(1),
                              !.path = path, !.value = value,
                              !.after = setByPath(h, 1, path, value)]
    /\ UNCHANGED <<store, cache, entries, calls, invalidatedMax, probe, shop>>

\* applyMappingRows on one loaded rule; the input is object 1 of h
ApplyReturn(h, rows, sparse, res) ==
    /\ last' = [PathOp EXCEPT !.op = "applyMappingRows", !.heap = h,
                              !.root = Ref(1), !.rows = rows, !.sparse = sparse,
                              !.status = res.status, !.trace = res.trace,
                              !.failAt = res.failAt]
    /\ UNCHANGED <<store, cache, entries, calls, invalidatedMax, probe, shop>>

ApplyMappingRows(h, mappingRow, sparse) ==
    ApplyReturn(h, Instances(<<mappingRow>>), sparse,
                applyMappingRows(InstanceHeap(<<mappingRow>>),
                                 Instances(<<mappingRow>>), h[1], sparse))

NextPath ==
    \/ \E h \in PathRecords : \E sourceObject \in PathRoots :
          \E path \in PathStrings : GetByPath(h, sourceObject, path)
    \/ \E h \in PathRecords : \E sourceObject \in PathRoots :
          \E path \in PathStrings : HasOwnByPath(h, sourceObject, path)
    \/ \E h \in PathRecords : \E path \in PathStrings :
          \E value \in PathValues : SetByPath(h, path, value)
    \/ \E h \in {r \in PathRecords : Len(r) = 1} : \E mappingRow \in PathRules :
          \E sparse \in BOOLEAN : ApplyMappingRows(h, mappingRow, sparse)

SpecPath == Init /\ [][NextPath]_vars

(* Round trips: the table holds version 1 of a rule set in which every    *)
(* to-external rule s -> t has the to-internal rule t -> s beside it,       *)
(* without transforms and defaults. One caller maps a record in one         *)
(* direction and, when that call returned, maps the returned object in the  *)
(* other direction. A record is a heap whose object 1 is the record.        *)
InversePair(source, target, isRequired) ==
    {FieldMapping("Product", 1, "toZoho", source, target, isRequired,
                  NoTransform, JNull),
     FieldMapping("Product", 1, "toEntity", target, source, isRequired,
                  NoTransform, JNull)}

RoundFirstPairs ==
    {InversePair(Path1("a"), Path1("t"), isRequired) : isRequired \in BOOLEAN}
        \cup {InversePair(Path2("a", "b"), Path1("t"), FALSE)}

RoundSecondPairs ==
    {{}, InversePair(Path1("b"), Path1("q"), FALSE),
     InversePair(Path1("b"), Path2("t", "x"), FALSE),
     InversePair(Path1("b"), Path1("t"), FALSE)}

RoundStores == {first \cup second : first \in RoundFirstPairs, second \in RoundSecondPairs}

\* the records with the given two top-level keys and the given nested key
RoundRecords(one, two, nested) ==
    {<<[key \in keys |-> IF key = one THEN value ELSE Num(7)]>> :
        keys \in SUBSET {one, two}, value \in {Num(5), Null, Str("")}}
    \cup {<<[key \in keys \cup {one} |-> IF key = one THEN Ref(2) ELSE Num(7)],
            [key \in {nested} |-> Num(1)]>> : keys \in SUBSET {two}}

RoundInputs ==
    [direction : {"toZoho"}, record : RoundRecords("a", "b", "b")]
        \cup [direction : {"toEntity"}, record : RoundRecords("t", "q", "x")]

\* instanceToPlain: a copy in which every object is a new object that holds
\* the fields of the original that are not undefined
RECURSIVE instanceToPlain(_, _, _)
RECURSIVE instanceToPlainKeys(_, _, _, _, _)
instanceToPlainKeys(h, from, to, keys, fuel) ==
    IF keys = {} THEN h
    ELSE LET key == CHOOSE k \in keys : TRUE
             copy == instanceToPlain(h, h[from][key], fuel)
         IN instanceToPlainKeys(Store(copy.heap, to, key, copy.value), from, to,
                                keys \ {key}, fuel)

instanceToPlain(h, value, fuel) ==
    IF ~isRecord(value) \/ fuel = 0 THEN [heap |-> h, value |-> value]
    ELSE LET addr == FreshAddr(h)
             h1 == [a \in DOMAIN h \cup {addr} |->
                      IF a = addr THEN EmptyObject ELSE h[a]]
         IN [heap |-> instanceToPlainKeys(h1, value.n, addr,
                          {k \in DOMAIN h[value.n] : h[value.n][k] # Undef},
                          fuel - 1),
             value |-> Ref(addr)]

\* toPlainObject: the plain copy when it is a record, else a new empty object
toPlainObject(h, inputValue) ==
    LET maybePlain == instanceToPlain(h, inputValue, MaxDepth)
    IN IF isRecord(maybePlain.value) THEN maybePlain
       ELSE instanceToPlain(Append(h, EmptyObject), Ref(Len(h) + 1), MaxDepth)

\* the object applyMappingRows returns when it ran on heap h: the one it
\* creates after the plain input
ReturnedObject(h) == Ref(FreshAddr(h) + 1)

\* the heap written out: every object with its own fields
Objects(h) == [a \in DOMAIN h |-> [key \in DOMAIN h[a] |-> h[a][key]]]

Opposite(direction) == IF direction = "toZoho" THEN "toEntity" ELSE "toZoho"

RoundOp == [op |-> "roundTrip", direction |-> "toZoho", input |-> <<>>,
            rows |-> <<>>, status |-> "", heap |-> <<>>, root |-> Undef]

\* the state after the first call of a round trip got res from applyMappingRows
RoundFirstReturn(c, direction, record, entry, plain, res) ==
    /\ Commit(cache,
              [entries EXCEPT ![calls[c].entry] =
                  [entry EXCEPT !.heap =
                      Restrict(res.heap, Reach(res.heap, DefaultRoots(entry)))]],
              [calls EXCEPT ![c] = Idle])
    /\ IF res.status = "ok"
       THEN /\ probe' = [set |-> TRUE, direction |-> direction, input |-> record,
                         status |-> res.status, heap |-> Objects(res.heap),
                         root |-> ReturnedObject(plain.heap)]
            /\ last' = [NoOp EXCEPT !.op = "map", !.direction = direction,
                                    !.status = res.status,
                                    !.rows = DirectionRows(entry, direction),
                                    !.trace = res.trace, !.out = res.out]
       ELSE /\ probe' = NoProbe
            /\ last' = [RoundOp EXCEPT !.direction = direction, !.input = record,
                                       !.rows = entry.toZoho,
                                       !.status = res.status]
    /\ UNCHANGED <<store, invalidatedMax, shop>>

RoundFirstApply(c, direction, record, sparse, entry, plain) ==
    RoundFirstReturn(c, direction, record, entry, plain,
        applyMappingRows(plain.heap, DirectionRows(entry, direction),
                         plain.heap[plain.value.n], sparse))

(* the first call of a round trip, after loadMappings returned               *)
RoundFirst(c, input, sparse) ==
    /\ calls[c].pc = "apply"
    /\ ~probe.set
    /\ RoundFirstApply(c, input.direction, input.record,
                       sparse /\ input.direction = "toZoho",
                       entries[calls[c].entry],
                       toPlainObject(input.record, Ref(1)))

\* the state after the second call of a round trip got res
RoundSecondReturn(c, entry, plain, res) ==
    /\ Commit(cache,
              [entries EXCEPT ![calls[c].entry] =
                  [entry EXCEPT !.heap =
                      Restrict(res.heap, Reach(res.heap, DefaultRoots(entry)))]],
              [calls EXCEPT ![c] = Idle])
    /\ probe' = NoProbe
    /\ last' = [RoundOp EXCEPT !.direction = probe.direction,
                               !.input = probe.input,
                               !.rows = entry.toZoho,
                               !.status = res.status,
                               !.heap = Objects(res.heap),
                               !.root = ReturnedObject(plain.heap)]
    /\ UNCHANGED <<store, invalidatedMax, shop>>

RoundSecondApply(c, sparse, entry, plain) ==
    RoundSecondReturn(c, entry, plain,
        applyMappingRows(plain.heap,
                         DirectionRows(entry, Opposite(probe.direction)),
                         plain.heap[plain.value.n], sparse))

(* the second call of a round trip: the other method, on the object the      *)
(* first call returned                                                       *)
RoundSecond(c, sparse) ==
    /\ calls[c].pc = "apply"
    /\ probe.set
    /\ RoundSecondApply(c, sparse /\ probe.direction = "toEntity",
                        entries[calls[c].entry],
                        toPlainObject(probe.heap, probe.root))

InitRound ==
    /\ store \in RoundStores
    /\ cache = [key \in {} |-> 0]
    /\ entries = <<>>
    /\ calls = [c \in Calls |-> Idle]
    /\ last = NoOp
    /\ invalidatedMax = 0
    /\ probe = NoProbe
    /\ ShopAtRest

NextRound ==
    \/ MapStart(1, Undef)
    \/ LoadLatestVersion(1)
    \/ LoadFind(1)
    \/ LoadStore(1)
    \/ \E input \in RoundInputs : \E sparse \in BOOLEAN : RoundFirst(1, input, sparse)
    \/ \E sparse \in BOOLEAN : RoundSecond(1, sparse)

SpecRound == InitRound /\ [][NextRound]_vars

(* A fixed rule store and one caller that awaits every call before it makes  *)
(* the next: slot 1 only, every plain input, and any completed map() may be  *)
(* kept in probe.                                                            *)
InitPure ==
    /\ store = UNION {Catalogue(v) : v \in Versions}
    /\ cache = [key \in {} |-> 0]
    /\ entries = <<>>
    /\ calls = [c \in Calls |-> Idle]
    /\ last = NoOp
    /\ invalidatedMax = 0
    /\ probe = NoProbe
    /\ ShopAtRest

NextPure ==
    \/ \E version \in VersionOptions : MapStart(1, version)
    \/ LoadLatestVersion(1)
    \/ LoadFind(1)
    \/ LoadStore(1)
    \/ \E plainInput \in PlainInputs : \E sparse \in BOOLEAN :
          \E record \in BOOLEAN :
            MapApply(1, "toZoho", plainInput, sparse, record)
    \/ \E plainInput \in PlainInputs : \E record \in BOOLEAN :
            MapApply(1, "toEntity", plainInput, FALSE, record)

SpecPure == InitPure /\ [][NextPure]_vars

(***************************************************************************)
(* Properties                                                              *)
(***************************************************************************)
LatestKey == cacheKey("Product", Undef)

\* the last step completed a map() call that reached applyMappingRows
Applied ==
    last.op = "map" /\ last.status \in {"ok", "required", "unknownTransform", "typeError"}

\* whether the last call's input has the source of row i as an own property
OwnSource(i) == hasOwnByPath(<<last.input>>, Ref(1), last.rows[i].source)

\* the JSON image of the output before row i of the last call was processed
OutBefore(i) == IF i = 1 THEN Json(<<EmptyObject>>, Ref(1)) ELSE last.trace[i - 1].out

\* C1: in a sparse to-external call, a rule whose source is not an own property
\* of the input is skipped: the output is the same before and after it, its
\* default is not applied, and the call does not fail at it, whatever its
\* isRequired flag, transform and defaultValue.
C1_SparseSkips ==
    (Applied /\ last.direction = "toZoho" /\ last.sparse) =>
        \A i \in 1..Len(last.rows) :
            ~OwnSource(i) =>
                /\ last.failAt # i
                /\ i <= Len(last.trace) =>
                      /\ last.trace[i].act = "skipped"
                      /\ last.trace[i].out = OutBefore(i)

\* a sparse call succeeded although a required rule with a transform and a
\* default had no source in the input; the rule was skipped
C1_Witness ==
    /\ Applied /\ last.sparse /\ last.status = "ok"
    /\ \E i \in 1..Len(last.rows) :
          /\ ~OwnSource(i)
          /\ last.rows[i].isRequired
          /\ last.rows[i].transformMethod = "defaultIfNull"
          /\ last.rows[i].defaultValue = Num(7)
          /\ last.trace[i].act = "skipped"
    /\ \E i \in 1..Len(last.rows) : last.trace[i].act = "set"

\* C2: a call returns a record only if every rule was processed and no applied
\* required rule ended with null, undefined or ''; a call that fails returns
\* no output, and it fails at an applied rule (a required one when the error
\* is the required-field error), the rules before it having been processed.
C2_RequiredOrNothing ==
    Applied =>
        /\ last.status = "ok" =>
              /\ Len(last.trace) = Len(last.rows)
              /\ \A i \in 1..Len(last.rows) :
                    (last.trace[i].act # "skipped" /\ last.rows[i].isRequired)
                        => /\ last.trace[i].value # Undef
                           /\ last.trace[i].value # Null
                           /\ last.trace[i].value # Str("")
              /\ last.out = last.trace[Len(last.trace)].out
        /\ last.status # "ok" =>
              /\ last.out = {}
              /\ last.failAt \in 1..Len(last.rows)
              /\ Len(last.trace) = last.failAt - 1
              /\ ~(last.sparse /\ ~OwnSource(last.failAt))
        /\ last.status = "required" => last.rows[last.failAt].isRequired

\* a call failed at its second rule after the first rule had written its target
C2_Witness ==
    /\ Applied /\ last.status = "required" /\ last.failAt = 2
    /\ last.trace[1].act = "set"
    /\ last.out = {}

\* a required rule whose value is the empty string failed the call
C2_WitnessEmptyString ==
    /\ Applied /\ last.status = "required" /\ last.failAt = 1
    /\ "a" \in DOMAIN last.input /\ last.input["a"] = Str("")

\* C3: two map() calls with the same direction, version, sparse flag and
\* input return the same result (the same record, or the same failure),
\* whatever calls ran between them.
C3_SameArgumentsSameOutput ==
    (/\ probe.set /\ last.op = "map"
     /\ last.direction = probe.direction /\ last.version = probe.version
     /\ last.sparse = probe.sparse /\ last.input = probe.input)
        => (last.status = probe.status /\ last.out = probe.out)

\* the cache entry as loadMappings builds it from the stored rules of a version
AsLoaded(version) == NewCacheEntry(version, find(store, "Product", version))

\* C4: rule application changes no shared state: every cache entry, the
\* defaultValue objects of its rules included, is as it was loaded.
C4_EntriesAsLoaded ==
    \A id \in DOMAIN entries : entries[id] = AsLoaded(entries[id].version)

\* C5: an entry under the "latest" key was read from the store after the last
\* invalidate(entity), so its version, the one a later map() without a version
\* uses, is not below the store's maximum at the time of that invalidation.
C5_LatestReadAfterInvalidate ==
    LatestKey \in DOMAIN cache =>
        entries[cache[LatestKey]].version >= invalidatedMax

\* C6 as stated: after invalidate(entity, v) with an explicit version the cache
\* holds no "latest" entry.
C6_ExplicitDropsLatest ==
    (last.op = "invalidate" /\ last.version # Undef) => LatestKey \notin DOMAIN cache

\* C6 amended: invalidate(entity, v) with an explicit version removes the entry
\* under the key of v and nothing else: every other key, "latest" included,
\* keeps its entry.
C6_ExplicitDropsOnlyItsKey ==
    [][(last'.op = "invalidate" /\ last'.version # Undef) =>
          /\ DOMAIN cache' = DOMAIN cache \ {cacheKey("Product", last'.version)}
          /\ \A key \in DOMAIN cache' : entries'[cache'[key]] = entries[cache[key]]
      ]_vars

\* invalidate(Product, 1) removed the entry of version 1 and "latest" is still cached
C6_Witness ==
    /\ last.op = "invalidate" /\ last.version = Num(1)
    /\ last.removed = {cacheKey("Product", Num(1))}
    /\ LatestKey \in DOMAIN cache

\* C7: after invalidate(entity) without a version the cache holds no entry for
\* the entity, under "latest" or under any explicit version.
C7_InvalidateAllDropsEveryKey ==
    (last.op = "invalidate" /\ last.version = Undef) => DOMAIN cache = {}

\* C8: an entry stays in the cache, unchanged, in every step that is not an
\* invalidate naming its key.
C8_EntryStaysUntilInvalidated ==
    [][\A key \in DOMAIN cache :
          \/ /\ last'.op = "invalidate"
             /\ key \in {cacheKey("Product", last'.version), cacheKey("Product", Undef)}
          \/ /\ key \in DOMAIN cache'
             /\ entries'[cache'[key]] = entries[cache[key]]
      ]_vars

\* C9: a load stores its entry only under a key that holds none, and the
\* version under "latest" never goes down while the key is present.
C9_NoReplacement ==
    [][/\ \A c \in Calls :
             (calls[c].pc = "store" /\ calls'[c].pc = "apply")
                 => cacheKey("Product", calls[c].version) \notin DOMAIN cache
       /\ (LatestKey \in DOMAIN cache /\ LatestKey \in DOMAIN cache')
             => entries'[cache'[LatestKey]].version >= entries[cache[LatestKey]].version
      ]_vars

\* the versions of the entity's stored rules
StoredVersions == {r.version : r \in {q \in store : q.entity = "Product"}}

\* C10: getLatestVersion fails exactly when the entity has no stored rule,
\* otherwise returns the maximum stored version; it never reads the cache (its
\* answer is the store's maximum even when the cached "latest" entry is of
\* another version) and never writes it.
C10_LatestVersionFromStore ==
    [][last'.op = "getLatestVersion" =>
          /\ (last'.status = "noMappings") = (StoredVersions = {})
          /\ last'.status # "noMappings" =>
                /\ last'.status = "ok"
                /\ last'.latestVersion \in StoredVersions
                /\ \A v \in StoredVersions : v <= last'.latestVersion
          /\ cache' = cache /\ entries' = entries /\ store' = store
      ]_vars

\* getLatestVersion answered 2 while the cached "latest" entry is of version 1
C10_Witness ==
    /\ last.op = "getLatestVersion" /\ last.status = "ok" /\ last.latestVersion = 2
    /\ LatestKey \in DOMAIN cache
    /\ entries[cache[LatestKey]].version = 1

\* getLatestVersion failed on an empty store
C10_WitnessNoMappings ==
    last.op = "getLatestVersion" /\ last.status = "noMappings"

\* the last step completed a map() call that failed in loadMappings
LoadFailed(op) == op.op = "map" /\ op.status \in {"noRows", "noMappings"}

\* C11: a map() call that finds no rules fails and leaves the cache as it was:
\* the failing step changes no key and no entry, and no entry of the cache is
\* ever without rules (no negative result is stored), so an identical later
\* call misses again and reads the store.
C11_FailedLoadStoresNothing ==
    /\ [](\A key \in DOMAIN cache :
            Len(entries[cache[key]].toZoho) + Len(entries[cache[key]].toEntity) > 0)
    /\ [][LoadFailed(last') => (cache' = cache /\ entries' = entries)]_vars

\* map() with explicit version 2 failed for want of rows while version 1 is
\* cached, and the cache has no entry under the key of version 2
C11_Witness ==
    /\ LoadFailed(last) /\ last.status = "noRows" /\ last.version = Num(2)
    /\ cacheKey("Product", Num(1)) \in DOMAIN cache
    /\ cacheKey("Product", Num(2)) \notin DOMAIN cache

\* C12: a call that finds its key in the cache sends no query to the rule
\* store and takes the entry the key holds, and in every step that is not an
\* invalidate of the key the key keeps the entry of the version that was
\* loaded first, so that every later call applies that same entry.
C12_LaterCallsApplyLoadedEntry ==
    [][/\ \A c \in Calls :
             (/\ calls[c].pc = "idle" /\ calls'[c].pc # "idle"
              /\ cacheKey("Product", calls'[c].version) \in DOMAIN cache)
                 => /\ calls'[c].pc = "apply" /\ calls'[c].reads = 0
                    /\ entries'[calls'[c].entry]
                          = entries[cache[cacheKey("Product", calls'[c].version)]]
       /\ \A key \in DOMAIN cache :
             ~(last'.op = "invalidate" /\ key = cacheKey("Product", last'.version))
                 => /\ key \in DOMAIN cache'
                    /\ entries'[cache'[key]].version = entries[cache[key]].version
      ]_vars

C14_UnknownTransformFails ==
    Applied =>
        \A i \in 1..Len(last.rows) :
            (/\ last.rows[i].transformMethod \notin {NoTransform} \cup TransformMethod
             /\ Len(last.trace) >= i - 1
             /\ ~(last.sparse /\ ~OwnSource(i)))
                => /\ last.status = "unknownTransform"
                   /\ last.failAt = i
                   /\ last.out = {}

\* C15: a to-internal call never skips a rule: every rule the loop reaches is
\* applied, a call that returns has applied all the rules of its direction,
\* and no call returns when a required rule has no source in the input and no
\* default.
C15_ToEntityAppliesEveryRule ==
    (Applied /\ last.direction = "toEntity") =>
        /\ ~last.sparse
        /\ \A i \in 1..Len(last.trace) : last.trace[i].act # "skipped"
        /\ last.status = "ok" => Len(last.trace) = Len(last.rows)
        /\ \A i \in 1..Len(last.rows) :
              (/\ last.rows[i].isRequired /\ ~OwnSource(i)
               /\ IsNullish(last.rows[i].defaultValue))
                  => last.status # "ok"

\* a to-internal call failed at a required rule whose source the input lacks
C15_Witness ==
    /\ Applied /\ last.direction = "toEntity" /\ last.status = "required"
    /\ last.rows[last.failAt].isRequired
    /\ ~OwnSource(last.failAt)
    /\ IsNullish(last.rows[last.failAt].defaultValue)

\* the value row i of the last call read from its source, after its transform
Transformed(i) ==
    LET read == getByPath(<<last.input>>, Ref(1), last.rows[i].source)
    IN IF last.rows[i].transformMethod = NoTransform THEN read
       ELSE TRANSFORM_REGISTRY(last.rows[i].transformMethod, read,
                               last.rows[i].defaultValue)

\* the loop of the last call reached row i and did not skip it, and the row's
\* transform, if any, is one of the registry
Reached(i) ==
    /\ Len(last.trace) >= i - 1
    /\ ~(last.sparse /\ ~OwnSource(i))
    /\ last.rows[i].transformMethod \in {NoTransform} \cup TransformMethod

\* C16: for an applied rule with a defaultValue, when the value read, after
\* the transform if there is one, is null or undefined, the required check and
\* the write use the defaultValue: the call fails at the rule only if the rule
\* is required and the defaultValue is '', and otherwise the defaultValue is
\* what is written at the target.
C16_DefaultFallback ==
    Applied =>
        \A i \in 1..Len(last.rows) :
            (/\ Reached(i)
             /\ ~IsNullish(last.rows[i].defaultValue)
             /\ IsNullish(Transformed(i)))
                => IF last.rows[i].isRequired /\ last.rows[i].defaultValue = Str("")
                   THEN last.status = "required" /\ last.failAt = i
                   ELSE /\ i <= Len(last.trace)
                        /\ last.trace[i].act = "set"
                        /\ last.trace[i].value = last.rows[i].defaultValue
                        /\ isRecord(last.rows[i].defaultValue)
                           \/ [p |-> splitPath(last.rows[i].target),
                               v |-> last.rows[i].defaultValue] \in last.trace[i].out

\* a required rule with the toNumber transform read null and its default 7 was
\* written at its target
C16_Witness ==
    /\ Applied /\ last.status = "ok"
    /\ last.rows[1].transformMethod = "toNumber" /\ last.rows[1].isRequired
    /\ last.rows[1].defaultValue = Num(7)
    /\ "a" \in DOMAIN last.input /\ last.input["a"] = Null
    /\ last.trace[1].value = Num(7)
    /\ [p |-> <<"t">>, v |-> Num(7)] \in last.out

\* C17: an applied rule that does not fail writes its target exactly when its
\* final value is not undefined: null is written as null (a transform other
\* than nullIfEmpty on an absent source without default, nullIfEmpty on ''),
\* and a rule without transform and default whose source is absent leaves the
\* output as it was.
C17_WritesUnlessUndefined ==
    Applied =>
        \A i \in 1..Len(last.trace) :
            last.trace[i].act # "skipped" =>
                /\ (last.trace[i].act = "set") = (last.trace[i].value # Undef)
                /\ last.trace[i].act = "unset" => last.trace[i].out = OutBefore(i)
                /\ (last.trace[i].act = "set" /\ ~isRecord(last.trace[i].value))
                      => [p |-> splitPath(last.rows[i].target),
                          v |-> last.trace[i].value] \in last.trace[i].out
                /\ (/\ IsNullish(last.rows[i].defaultValue)
                    /\ \/ /\ last.rows[i].transformMethod
                                \in {"toNumber", "toString", "defaultIfNull"}
                          /\ ~OwnSource(i)
                       \/ /\ last.rows[i].transformMethod = "nullIfEmpty"
                          /\ OwnSource(i)
                          /\ last.input[join(last.rows[i].source)] = Str(""))
                      => last.trace[i].value = Null
                /\ (/\ IsNullish(last.rows[i].defaultValue)
                    /\ last.rows[i].transformMethod \in {NoTransform, "nullIfEmpty"}
                    /\ ~OwnSource(i))
                      => last.trace[i].act = "unset"

\* a non-sparse call wrote an explicit null for a toString rule whose source
\* the input lacks
C17_Witness ==
    /\ Applied /\ last.status = "ok" /\ ~last.sparse
    /\ last.rows[1].transformMethod = "toString"
    /\ ~OwnSource(1)
    /\ last.trace[1].act = "set"
    /\ [p |-> <<"t">>, v |-> Null] \in last.out

\* the container that holds the final segment of parts, when the walk from
\* value through the segments before it stays within own keys of objects
RECURSIVE ParentOf(_, _, _)
ParentOf(h, value, parts) ==
    IF Len(parts) = 1 THEN value
    ELSE IF isRecord(value) /\ Head(parts) \in DOMAIN h[value.n]
    THEN ParentOf(h, h[value.n][Head(parts)], Tail(parts))
    ELSE Undef

\* whether the record has the final segment of parts as an own key of its parent
OwnFinal(h, value, parts) ==
    LET parent == ParentOf(h, value, parts)
    IN isRecord(parent) /\ parts[Len(parts)] \in DOMAIN h[parent.n]

\* C18: for a path with a final segment, hasOwnByPath is true exactly when the
\* parent container of that segment is an object that has it as an own key,
\* whatever the key's value; and a sparse call whose input holds the source key
\* with an explicit null applies the rule: the default is used when there is
\* one, and otherwise a required rule fails the call and an optional one
\* writes null.
C18_HasOwnSeesNull ==
    /\ (last.op = "hasOwnByPath" /\ splitPath(last.path) # <<>>)
          => last.own = OwnFinal(last.heap, last.root, splitPath(last.path))
    /\ (/\ last.op = "applyMappingRows" /\ last.sparse
        /\ "a" \in DOMAIN last.heap[1] /\ last.heap[1]["a"] = Null)
          => IF last.rows[1].defaultValue # Null
             THEN /\ last.status = "ok" /\ last.trace[1].act = "set"
                  /\ last.trace[1].value = last.rows[1].defaultValue
             ELSE IF last.rows[1].isRequired
             THEN last.status = "required" /\ last.failAt = 1
             ELSE /\ last.status = "ok" /\ last.trace[1].act = "set"
                  /\ last.trace[1].value = Null

\* a sparse call failed at a required rule whose source key is present with null
C18_Witness ==
    /\ last.op = "applyMappingRows" /\ last.sparse
    /\ "a" \in DOMAIN last.heap[1] /\ last.heap[1]["a"] = Null
    /\ last.rows[1].isRequired
    /\ last.status = "required" /\ last.failAt = 1

\* C19: two paths with the same sequence of trimmed, non-empty segments give
\* the same getByPath result, the same hasOwnByPath result and the same record
\* after setByPath.
C19_EquivalentPaths ==
    last.op \in {"getByPath", "hasOwnByPath", "setByPath"} =>
        \A path \in PathStrings :
            splitPath(path) = splitPath(last.path) =>
                /\ last.op = "getByPath"
                      => getByPath(last.heap, last.root, path) = last.got
                /\ last.op = "hasOwnByPath"
                      => hasOwnByPath(last.heap, last.root, path) = last.own
                /\ last.op = "setByPath"
                      => Json(setByPath(last.heap, 1, path, last.value), Ref(1))
                            = Json(last.after, Ref(1))

\* C20: after setByPath(output, path, value) with a value other than undefined,
\* getByPath(output, path) is that value, for every path.
C20_SetThenGet ==
    last.op = "setByPath"
        => getByPath(last.after, Ref(1), last.path) = last.value

\* one sequence of segments starts with the other (or equals it)
PrefixRelated(p, q) ==
    LET n == IF Len(p) <= Len(q) THEN Len(p) ELSE Len(q)
    IN SubSeq(p, 1, n) = SubSeq(q, 1, n)

\* no two of the rules have equal or prefix-related paths on either side
Independent(rows) ==
    \A i, j \in 1..Len(rows) :
        i # j => /\ ~PrefixRelated(splitPath(rows[i].source),
                                   splitPath(rows[j].source))
                 /\ ~PrefixRelated(splitPath(rows[i].target),
                                   splitPath(rows[j].target))

\* the path rule pair i covers in the shape the round trip started from
RoundPath(i) ==
    IF last.direction = "toZoho" THEN last.rows[i].source ELSE last.rows[i].target

\* the round trip returned at RoundPath(i) what the original record held there
Reproduced(i) ==
    Json(last.heap, getByPath(last.heap, last.root, RoundPath(i)))
        = Json(last.input, getByPath(last.input, Ref(1), RoundPath(i)))

SortedRows(rows) ==
    \A i, j \in 1..Len(rows) :
        i < j => /\ TextLeq(rows[i].source, rows[j].source)
                 /\ rows[i].source = rows[j].source
                        => TextLeq(rows[i].target, rows[j].target)

\* the leaf that a value written at the target of row j makes in the output
Written(j) == [p |-> splitPath(last.rows[j].target), v |-> last.trace[j].value]

\* rule j wrote a value, an earlier rule had written to the same or a
\* prefix-related target, and no later rule wrote to such a target
WroteLast(j) ==
    /\ last.trace[j].act = "set" /\ ~isRecord(last.trace[j].value)
    /\ \E i \in 1..(j - 1) :
          /\ last.trace[i].act = "set"
          /\ PrefixRelated(splitPath(last.rows[i].target),
                           splitPath(last.rows[j].target))
    /\ \A k \in (j + 1)..Len(last.rows) :
          last.trace[k].act = "set"
              => ~PrefixRelated(splitPath(last.rows[k].target),
                                splitPath(last.rows[j].target))

\* C22: both direction lists of every cache entry are sorted by source path and
\* then target path; a map() call that returns has applied the rules of its
\* list one after the other in that order, and where two rules wrote to the
\* same or prefix-related targets the returned record holds the value of the
\* later one at its target.
C22_SortedAndAppliedInOrder ==
    /\ \A e \in 1..Len(entries) :
          SortedRows(entries[e].toZoho) /\ SortedRows(entries[e].toEntity)
    /\ (last.op = "map" /\ last.status = "ok")
          => /\ Len(last.trace) = Len(last.rows)
             /\ \A j \in 1..Len(last.rows) :
                   /\ (last.trace[j].act = "set" /\ ~isRecord(last.trace[j].value))
                         => Written(j) \in last.trace[j].out
                   /\ WroteLast(j) => Written(j) \in last.out

\* a call returned in which the second rule wrote over the target of the first
C22_Witness ==
    /\ last.op = "map" /\ last.status = "ok"
    /\ Len(last.rows) = 2 /\ WroteLast(2)
    /\ last.trace[1].value # last.trace[2].value
    /\ SortedRows(last.rows)

\* the statuses of the configuration errors the service raises itself
ConfigurationErrors == {"noMappings", "noRows", "unknownTransform"}

\* C23: a map() call that ends while a query to the rule store is pending
\* (the query failed, or the MAX(version) query found no rule) fails with a
\* configuration error and leaves the cache as it was.
C23_StoreFailureIsConfigurationError ==
    [][(calls[1].pc \in {"max", "find"} /\ calls'[1].pc = "idle")
          => /\ last'.op = "map" /\ last'.status \in ConfigurationErrors
             /\ cache' = cache /\ entries' = entries]_vars

\* what identifies a rule within the table
RuleKey(r) == <<r.entity, r.version, r.direction, r.source, r.target>>

\* the rules of a list are exactly the stored rules of the entity, the version
\* and the direction
ExactlyStored(rows, entity, version, direction) ==
    /\ {RuleKey(rows[i]) : i \in 1..Len(rows)}
          = {RuleKey(r) : r \in {q \in store : /\ q.entity = entity
                                               /\ q.version = version
                                               /\ q.direction = direction}}
    /\ \A i, j \in 1..Len(rows) : i # j => RuleKey(rows[i]) # RuleKey(rows[j])

\* C28: every entry of the cache holds, in its two lists, exactly the stored
\* rules of the entity of its key, of the entry's version and of the list's
\* direction; under the key of an explicit version v the entry has version v;
\* the version resolved for a "latest" load is the store's maximum at the time
\* of the MAX(version) query and is the version of the entry stored under
\* "latest"; and a map() call over an empty direction list returns an empty
\* record without failing.
C28_EntriesWellFormed ==
    /\ [](\A key \in DOMAIN cache :
            /\ ExactlyStored(entries[cache[key]].toZoho, "Product",
                             entries[cache[key]].version, "toZoho")
            /\ ExactlyStored(entries[cache[key]].toEntity, "Product",
                             entries[cache[key]].version, "toEntity"))
    /\ [](\A v \in Versions :
            cacheKey("Product", Num(v)) \in DOMAIN cache
                => entries[cache[cacheKey("Product", Num(v))]].version = v)
    /\ [][/\ (calls[1].pc = "max" /\ calls'[1].pc = "find")
                => calls'[1].resolvedVersion = MaxPublished(store, "Product")
          /\ (calls[1].pc = "store" /\ calls'[1].pc = "apply"
              /\ calls[1].version = Undef)
                => /\ LatestKey \in DOMAIN cache'
                   /\ entries'[cache'[LatestKey]].version
                          = calls[1].resolvedVersion]_vars
    /\ []((last.op = "map" /\ ~LoadFailed(last) /\ last.rows = <<>>)
            => (last.status = "ok" /\ last.out = Json(<<EmptyObject>>, Ref(1))))

\* toEntity returned an empty record from the "latest" entry, which holds
\* to-external rules and no to-internal rule
C28_Witness ==
    /\ last.op = "map" /\ last.direction = "toEntity" /\ last.rows = <<>>
    /\ last.status = "ok"
    /\ LatestKey \in DOMAIN cache
    /\ entries[cache[LatestKey]].toEntity = <<>>
    /\ entries[cache[LatestKey]].toZoho # <<>>

\* the request in progress is a service call of the products module
InService == request.pc # "idle"

\* C24: the index changes only in the last step of a create, update or delete
\* whose local write succeeded and whose Zoho call, when one was made,
\* succeeded (create always makes one); and that last step ends the operation
\* with success and changes neither the products table nor Zoho, whether the
\* indexer call succeeded or not.
C24_IndexAfterPrimaryStores ==
    [][/\ index' # index
            => /\ request.pc = "index" /\ request.localWrite = "ok"
               /\ request.zohoCall \in {"none", "success"}
               /\ request.op = "create" => request.zohoCall = "success"
       /\ (request.pc = "index" /\ request'.pc = "idle")
            => /\ last'.status = "ok"
               /\ last'.request.indexCall \in {"ok", "rejected"}
               /\ products' = products /\ zoho' = zoho]_vars

\* a create ended with success although its indexer call was rejected: the
\* product is in the table and in Zoho, and not in the index
C24_Witness ==
    /\ last.op = "create" /\ last.status = "ok"
    /\ last.request.indexCall = "rejected"
    /\ last.request.id \in DOMAIN products
    /\ last.request.zohoId \in DOMAIN zoho
    /\ last.request.id \notin DOMAIN index

C26_BothCookiesRequired ==
    InService => (request.cookies.accessToken /\ request.cookies.apiDomain)

\* C29: a delete of a product that is in an order ends with method not allowed
\* and has called neither Zoho nor the table nor the index, and the step that
\* ends it changes none of them; the row of a product with a zohoId leaves the
\* table only after the Zoho delete call succeeded, and a delete whose Zoho
\* call was rejected has written neither to the table nor to the index.
C29_DeleteGuards ==
    /\ []((last.op = "delete" /\ last.status = "methodNotAllowed")
            => /\ last.request.id \in DOMAIN products
               /\ last.request.zohoCall = "none"
               /\ last.request.localWrite = "none"
               /\ last.request.indexCall = "none")
    /\ [][/\ (request.op = "delete" /\ request.pc = "find"
              /\ request.id \in DOMAIN products
              /\ \E order \in orders : request.id \in order)
               => /\ last'.status = "methodNotAllowed"
                  /\ products' = products /\ zoho' = zoho /\ index' = index
          /\ (request.op = "delete" /\ products' # products)
               => /\ products[request.id].zohoId # 0
                        => request.zohoCall = "success"
                  /\ ~\E order \in orders : request.id \in order
          /\ (request.op = "delete" /\ last'.status = "zohoFailed")
               => (products' = products /\ index' = index)
         ]_vars
    /\ []((last.op = "delete" /\ last.status = "zohoFailed")
            => /\ last.request.id \in DOMAIN products
               /\ last.request.localWrite = "none"
               /\ last.request.indexCall = "none")

\* a delete of a product that is in an order was refused
C29_Witness ==
    /\ last.op = "delete" /\ last.status = "methodNotAllowed"
    /\ \E order \in orders : last.request.id \in order
    /\ last.request.id \in DOMAIN products

\* C30: creating an order fails with not-found exactly when some id of its
\* list names no product.
C30_NotFoundOnlyForMissingProduct ==
    last.op = "orderCreate"
        => (last.status = "notFound")
              = (\E i \in 1..Len(last.productsIds) :
                    last.productsIds[i] \notin DOMAIN products)

\* the text is a decimal numeral of an integer >= 1
PositiveInteger(text) == IsDigits(text) /\ Decimal(text) >= 1

\* the text is a minus sign and a decimal numeral of an integer >= 1
NegativeInteger(text) == Len(text) > 1 /\ text[1] = "-" /\ PositiveInteger(Tail(text))

\* C27: a search whose page parameter is the numeral of an integer p >= 1
\* queries the index with page p - 1; with every other page parameter (not
\* given, not a number, zero, negative) it queries page 0; the page sent is
\* never negative, hitsPerPage is within 1..1000, and it is 20 when the limit
\* parameter is not given, not a number or zero.
C27_SearchPaging ==
    last.op = "search"
        => /\ IF last.page.given /\ PositiveInteger(last.page.text)
              THEN last.searchParams.page = Decimal(last.page.text) - 1
              ELSE last.searchParams.page = 0
           /\ last.searchParams.page >= 0
           /\ last.searchParams.hitsPerPage \in 1..1000
           /\ (\/ ~last.limit.given
               \/ ~(PositiveInteger(last.limit.text) \/ NegativeInteger(last.limit.text)))
                => last.searchParams.hitsPerPage = 20

\* page 22 was asked with a limit above the cap: the index was queried with
\* page 21 and 1000 hits per page
C27_Witness ==
    /\ last.op = "search"
    /\ last.page = [given |-> TRUE, text |-> <<"2", "2">>]
    /\ last.limit = [given |-> TRUE, text |-> <<"2", "0", "0", "0">>]
    /\ last.searchParams = [page |-> 21, hitsPerPage |-> 1000]

====
